---- MODULE Spec2Model ----
(***************************************************************************)
(* Virtual Pet Dashboard (src/script.js) as a state machine.               *)
(*                                                                         *)
(* The page keeps one live object `state`, a persisted copy of it in       *)
(* localStorage, one recurring 5 s timer, and a few DOM texts.  Every      *)
(* handler (timer callback, button click, page load) runs to completion,   *)
(* so each is one action.  flashAnimation only toggles a CSS class for     *)
(* 500 ms and is not modelled.                                             *)
(***************************************************************************)
EXTENDS Integers, Sequences, FiniteSets, TLC

VARIABLES
    state,          \* the live pet object (script.js:51)
    storage,        \* localStorage item STORAGE_KEY (script.js:8)
    tickInterval,   \* handle of the interval created last, 0 = null (script.js:53)
    timers,         \* handles of the intervals that are active in the page
    petMessage,     \* petMessageEl.textContent
    conditionText,  \* conditionTextEl.textContent
    now,            \* the wall clock, Date.now(), in ms since first boot
    nTicks,         \* timer callbacks run so far   (bounds the exploration)
    nEvents,        \* button clicks and page reloads so far (bounds the exploration)
    terminal,       \* history: a tick has left health at 0 since the last reset
    lastOp,         \* history: the handler or function that ran last
    opened          \* history: the pet the run started with

vars == <<state, storage, tickInterval, timers, petMessage, conditionText,
          now, nTicks, nEvents, terminal, lastOp, opened>>

\* ---------------------------------------------------------------- bounds
MaxTicks == 5
MaxEvents == 3
MaxRestarts == 2
LifeTicks == 70

\* ------------------------------------------------------------- constants
TickMs == 5000
MinuteMs == 60000
CapMinutes == 60
LO == 0
HI == 100

\* How long the page may stay closed before it is opened again (ms).
Gaps == {MinuteMs - 1, MinuteMs, 45 * MinuteMs, (CapMinutes + 1) * MinuteMs}

Min(a, b) == IF a <= b THEN a ELSE b
Max(a, b) == IF a >= b THEN a ELSE b

\* -------------------------------------------------------------- helpers
\* clamp with the upper bound forgotten.
clamp_noUpper(n, min, max) == Max(min, n)

clamp(n, min, max) == Max(min, Min(max, n))

\* defaultState with lastTickAt left at 0 instead of Date.now().
defaultState_epoch(t) ==
    [health |-> 100, hunger |-> 0, energy |-> 80, clean |-> 80,
     mood |-> "Happy", createdAt |-> t, lastTickAt |-> 0,
     isSleeping |-> FALSE, paused |-> FALSE]

defaultState(t) ==
    [health |-> 100, hunger |-> 0, energy |-> 80, clean |-> 80,
     mood |-> "Happy", createdAt |-> t, lastTickAt |-> t,
     isSleeping |-> FALSE, paused |-> FALSE]

\* The classifier with the hunger rule tried before the health rule.
computeMoodAndCondition_hungerFirst(s) ==
    IF s.isSleeping THEN [mood |-> "Sleepy", condition |-> "Sleeping..."]
    ELSE IF s.hunger >= 75 THEN [mood |-> "Hungry", condition |-> "Feed me!"]
    ELSE IF s.health <= 25 THEN [mood |-> "Sick", condition |-> "Needs care!"]
    ELSE IF s.energy <= 25 THEN [mood |-> "Sleepy", condition |-> "Very tired"]
    ELSE IF s.clean <= 25 THEN [mood |-> "Sick", condition |-> "Dirty & cranky"]
    ELSE IF s.health >= 70 /\ s.hunger <= 40 /\ s.energy >= 40
         THEN [mood |-> "Happy", condition |-> "Great"]
    ELSE [mood |-> "Okay", condition |-> "Doing fine"]

computeMoodAndCondition(s) ==
    IF s.isSleeping THEN [mood |-> "Sleepy", condition |-> "Sleeping..."]
    ELSE IF s.health <= 25 THEN [mood |-> "Sick", condition |-> "Needs care!"]
    ELSE IF s.hunger >= 75 THEN [mood |-> "Hungry", condition |-> "Feed me!"]
    ELSE IF s.energy <= 25 THEN [mood |-> "Sleepy", condition |-> "Very tired"]
    ELSE IF s.clean <= 25 THEN [mood |-> "Sick", condition |-> "Dirty & cranky"]
    ELSE IF s.health >= 70 /\ s.hunger <= 40 /\ s.energy >= 40
         THEN [mood |-> "Happy", condition |-> "Great"]
    ELSE [mood |-> "Okay", condition |-> "Doing fine"]

\* ---------------------------------------------------- time-based changes
\* The decay step with `else if` written as `if`: both hunger penalties apply
\* once hunger is 80 or more.
applyNaturalDecay_noElse(s) ==
    IF s.isSleeping
    THEN [s EXCEPT !.hunger = clamp(s.hunger + 2, LO, HI),
                   !.energy = clamp(s.energy + 6, LO, HI),
                   !.clean  = clamp(s.clean - 1, LO, HI),
                   !.health = clamp(s.health + 1, LO, HI)]
    ELSE LET next == [s EXCEPT !.hunger = clamp(s.hunger + 3, LO, HI),
                               !.energy = clamp(s.energy - 2, LO, HI),
                               !.clean  = clamp(s.clean - 1, LO, HI)]
             h0 == IF next.hunger >= 80 THEN clamp(next.health - 3, LO, HI)
                   ELSE next.health
             h1 == IF next.hunger >= 60 THEN clamp(h0 - 1, LO, HI) ELSE h0
             h2 == IF next.energy <= 10 THEN clamp(h1 - 2, LO, HI) ELSE h1
             h3 == IF next.clean <= 10 THEN clamp(h2 - 2, LO, HI) ELSE h2
         IN [next EXCEPT !.health = h3]

\* applyNaturalDecay resting more slowly: energy + 5 a step asleep.
applyNaturalDecay_slowRest(s) ==
    IF s.isSleeping
    THEN [s EXCEPT !.hunger = clamp(s.hunger + 2, LO, HI),
                   !.energy = clamp(s.energy + 5, LO, HI),
                   !.clean  = clamp(s.clean - 1, LO, HI),
                   !.health = clamp(s.health + 1, LO, HI)]
    ELSE LET next == [s EXCEPT !.hunger = clamp(s.hunger + 3, LO, HI),
                               !.energy = clamp(s.energy - 2, LO, HI),
                               !.clean  = clamp(s.clean - 1, LO, HI)]
             h1 == IF next.hunger >= 80 THEN clamp(next.health - 3, LO, HI)
                   ELSE IF next.hunger >= 60 THEN clamp(next.health - 1, LO, HI)
                   ELSE next.health
             h2 == IF next.energy <= 10 THEN clamp(h1 - 2, LO, HI) ELSE h1
             h3 == IF next.clean <= 10 THEN clamp(h2 - 2, LO, HI) ELSE h2
         IN [next EXCEPT !.health = h3]

applyNaturalDecay(s) ==
    IF s.isSleeping
    THEN [s EXCEPT !.hunger = clamp(s.hunger + 2, LO, HI),
                   !.energy = clamp(s.energy + 6, LO, HI),
                   !.clean  = clamp(s.clean - 1, LO, HI),
                   !.health = clamp(s.health + 1, LO, HI)]
    ELSE LET next == [s EXCEPT !.hunger = clamp(s.hunger + 3, LO, HI),
                               !.energy = clamp(s.energy - 2, LO, HI),
                               !.clean  = clamp(s.clean - 1, LO, HI)]
             h1 == IF next.hunger >= 80 THEN clamp(next.health - 3, LO, HI)
                   ELSE IF next.hunger >= 60 THEN clamp(next.health - 1, LO, HI)
                   ELSE next.health
             h2 == IF next.energy <= 10 THEN clamp(h1 - 2, LO, HI) ELSE h1
             h3 == IF next.clean <= 10 THEN clamp(h2 - 2, LO, HI) ELSE h2
         IN [next EXCEPT !.health = h3]

\* ---------------------------------------------------------- persistence
\* A localStorage item is null or a string.  A string that JSON.parse turns
\* into an object is held as its set of <<key, value>> members; the other
\* strings are the empty string, text JSON.parse throws on, and JSON of a
\* value that is no object (a number, null, ...).
NoItem == [kind |-> "null", members |-> {}]

JSONstringify(s) == [kind |-> "object", members |-> {<<k, s[k]>> : k \in DOMAIN s}]

JSONparse(raw) ==
    [k \in {m[1] : m \in raw.members} |-> (CHOOSE m \in raw.members : m[1] = k)[2]]

\* { ...a, ...b }
Spread(a, b) ==
    [k \in DOMAIN a \cup DOMAIN b |-> IF k \in DOMAIN b THEN b[k] ELSE a[k]]

\* for (i = 0; i < n; i++) fixed = applyNaturalDecay(fixed).  The test on
\* fixed makes each iterate a value before the next one is computed from it.
RECURSIVE DecayTimes(_, _)
DecayTimes(s, n) ==
    IF n <= 0 THEN s
    ELSE LET fixed == applyNaturalDecay(s)
         IN IF fixed = fixed THEN DecayTimes(fixed, n - 1) ELSE fixed

Null == [isNull |-> TRUE]
IsNull(x) == "isNull" \in DOMAIN x

\* The elapsed minutes without the cap, and rounded up instead of down.
minutesSince_uncapped(last, t) == (t - last) \div MinuteMs
minutesSince_roundUp(last, t) ==
    Min(CapMinutes, (t - last + MinuteMs - 1) \div MinuteMs)

minutesSince(last, t) == Min(CapMinutes, (t - last) \div MinuteMs)

loadState(raw, t) ==
    IF raw.kind # "object" THEN Null
    ELSE LET parsed  == JSONparse(raw)
             last    == IF "lastTickAt" \in DOMAIN parsed THEN parsed.lastTickAt ELSE t
             minutes == minutesSince(last, t)
             fixed   == DecayTimes(Spread(defaultState(t), parsed), minutes)
         IN [fixed EXCEPT !.lastTickAt = t]

\* ------------------------------------------------------------------ UI
MsgInitial == ""
MsgRested  == "I feel rested!"
MsgDead    == "Oh no... I need a reset."
MsgFed     == "Yum! Thanks for feeding me"
MsgTired   == "Too tired to play... maybe let me sleep"
MsgPlayed  == "That was fun!"
MsgAsleep  == "Zzz..."
MsgAwake   == "I'm awake!"
MsgNoHeal  == "Too tired to heal... sleep first"
MsgHealed  == "Feeling better already"
MsgPaused  == "Time paused"
MsgResumed == "Time resumed"
MsgFresh   == "Fresh start! Say hi"

\* saveState(): the write is taken to succeed (the catch branch only logs).
saveState(s) == JSONstringify(s)

\* render(): recompute the mood, show it, and save the state.
rendered(s) == [s EXCEPT !.mood = computeMoodAndCondition(s).mood]

\* render saving the state before it has set the mood.
render_saveFirst(s) ==
    /\ state' = rendered(s)
    /\ conditionText' = computeMoodAndCondition(s).condition
    /\ storage' = saveState(s)

render(s) ==
    /\ state' = rendered(s)
    /\ conditionText' = computeMoodAndCondition(s).condition
    /\ storage' = saveState(rendered(s))

\* startTicking without `if (tickInterval) clearInterval(tickInterval);`.
startTicking_noClear(ti, tm) ==
    LET id == 1 + Max(ti, Cardinality(tm))
    IN /\ tickInterval' = id
       /\ timers' = tm \cup {id}

\* startTicking(), entered with interval handle ti and active intervals tm:
\* the old interval is cleared, the new one gets the next free handle.
startTicking(ti, tm) ==
    LET kept == IF ti # 0 THEN tm \ {ti} ELSE tm
        id == 1 + Max(ti, Cardinality(tm))
    IN /\ tickInterval' = id
       /\ timers' = kept \cup {id}

\* The script's top level, run at time t on a page whose storage holds raw:
\* state = loadState() ?? defaultState(); render(); startTicking().
loaded(raw, t) ==
    LET l == loadState(raw, t) IN IF IsNull(l) THEN defaultState(t) ELSE l

boot(raw, t) ==
    /\ render(loaded(raw, t))
    /\ startTicking(0, {})

\* ------------------------------------------------------------- actions
\* The callback without `if (state.paused) return;`.
callback_noPauseCheck ==
    /\ \E id \in timers :
        /\ now' = now + TickMs
        /\ nTicks' = nTicks + 1
        /\ IF FALSE
           THEN UNCHANGED <<state, storage, conditionText, petMessage, terminal>>
           ELSE LET s1 == [applyNaturalDecay(state) EXCEPT !.lastTickAt = now']
                    wake == s1.isSleeping /\ s1.energy >= 98
                    s2 == IF wake THEN [s1 EXCEPT !.isSleeping = FALSE] ELSE s1
                    dead == s2.health <= 0
                    s3 == IF dead
                          THEN [s2 EXCEPT !.health = 0, !.paused = TRUE,
                                          !.isSleeping = FALSE]
                          ELSE s2
                IN /\ petMessage' = IF dead THEN MsgDead
                                    ELSE IF wake THEN MsgRested ELSE petMessage
                   /\ terminal' = (terminal \/ dead)
                   /\ render(s3)
    /\ lastOp' = "tick"
    /\ UNCHANGED <<tickInterval, timers, nEvents, opened>>

\* The callback waking the pet only at full energy.
callback_wakeAt100 ==
    /\ \E id \in timers :
        /\ now' = now + TickMs
        /\ nTicks' = nTicks + 1
        /\ IF state.paused
           THEN UNCHANGED <<state, storage, conditionText, petMessage, terminal>>
           ELSE LET s1 == [applyNaturalDecay(state) EXCEPT !.lastTickAt = now']
                    wake == s1.isSleeping /\ s1.energy >= 100
                    s2 == IF wake THEN [s1 EXCEPT !.isSleeping = FALSE] ELSE s1
                    dead == s2.health <= 0
                    s3 == IF dead
                          THEN [s2 EXCEPT !.health = 0, !.paused = TRUE,
                                          !.isSleeping = FALSE]
                          ELSE s2
                IN /\ petMessage' = IF dead THEN MsgDead
                                    ELSE IF wake THEN MsgRested ELSE petMessage
                   /\ terminal' = (terminal \/ dead)
                   /\ render(s3)
    /\ lastOp' = "tick"
    /\ UNCHANGED <<tickInterval, timers, nEvents, opened>>

\* The callback without the auto-wake.
callback_noWake ==
    /\ \E id \in timers :
        /\ now' = now + TickMs
        /\ nTicks' = nTicks + 1
        /\ IF state.paused
           THEN UNCHANGED <<state, storage, conditionText, petMessage, terminal>>
           ELSE LET s1 == [applyNaturalDecay(state) EXCEPT !.lastTickAt = now']
                    wake == FALSE
                    s2 == IF wake THEN [s1 EXCEPT !.isSleeping = FALSE] ELSE s1
                    dead == s2.health <= 0
                    s3 == IF dead
                          THEN [s2 EXCEPT !.health = 0, !.paused = TRUE,
                                          !.isSleeping = FALSE]
                          ELSE s2
                IN /\ petMessage' = IF dead THEN MsgDead
                                    ELSE IF wake THEN MsgRested ELSE petMessage
                   /\ terminal' = (terminal \/ dead)
                   /\ render(s3)
    /\ lastOp' = "tick"
    /\ UNCHANGED <<tickInterval, timers, nEvents, opened>>

\* The interval callback (script.js:219-241); it runs every TickMs.
callback ==
    /\ \E id \in timers :
        /\ now' = now + TickMs
        /\ nTicks' = nTicks + 1
        /\ IF state.paused
           THEN UNCHANGED <<state, storage, conditionText, petMessage, terminal>>
           ELSE LET s1 == [applyNaturalDecay(state) EXCEPT !.lastTickAt = now']
                    wake == s1.isSleeping /\ s1.energy >= 98
                    s2 == IF wake THEN [s1 EXCEPT !.isSleeping = FALSE] ELSE s1
                    dead == s2.health <= 0
                    s3 == IF dead
                          THEN [s2 EXCEPT !.health = 0, !.paused = TRUE,
                                          !.isSleeping = FALSE]
                          ELSE s2
                IN /\ petMessage' = IF dead THEN MsgDead
                                    ELSE IF wake THEN MsgRested ELSE petMessage
                   /\ terminal' = (terminal \/ dead)
                   /\ render(s3)
    /\ lastOp' = "tick"
    /\ UNCHANGED <<tickInterval, timers, nEvents, opened>>

tick == nTicks < MaxTicks /\ callback

\* A button's click listener is entered (script.js:325-330).
click(button) ==
    /\ nEvents < MaxEvents
    /\ nEvents' = nEvents + 1
    /\ lastOp' = button
    /\ UNCHANGED <<tickInterval, timers, now, nTicks, opened>>

\* feed without its health guard.
feed_unguarded ==
    /\ click("feed")
    /\ render([state EXCEPT !.hunger = clamp(state.hunger - 25, LO, HI),
                            !.clean  = clamp(state.clean - 5, LO, HI),
                            !.energy = clamp(state.energy + 5, LO, HI)])
    /\ petMessage' = MsgFed
    /\ UNCHANGED terminal

feed ==
    /\ click("feed")
    /\ IF state.health <= 0
       THEN UNCHANGED <<state, storage, conditionText, petMessage, terminal>>
       ELSE /\ render([state EXCEPT !.hunger = clamp(state.hunger - 25, LO, HI),
                                    !.clean  = clamp(state.clean - 5, LO, HI),
                                    !.energy = clamp(state.energy + 5, LO, HI)])
            /\ petMessage' = MsgFed
            /\ UNCHANGED terminal

\* play refusing only below energy 10.
play_offByOne ==
    /\ click("play")
    /\ IF state.health <= 0
       THEN UNCHANGED <<state, storage, conditionText, petMessage, terminal>>
       ELSE IF state.energy < 10
       THEN /\ petMessage' = MsgTired
            /\ UNCHANGED <<state, storage, conditionText, terminal>>
       ELSE /\ render([state EXCEPT !.energy = clamp(state.energy - 18, LO, HI),
                                    !.hunger = clamp(state.hunger + 8, LO, HI),
                                    !.clean  = clamp(state.clean - 10, LO, HI),
                                    !.health = clamp(state.health + 3, LO, HI)])
            /\ petMessage' = MsgPlayed
            /\ UNCHANGED terminal

play ==
    /\ click("play")
    /\ IF state.health <= 0
       THEN UNCHANGED <<state, storage, conditionText, petMessage, terminal>>
       ELSE IF state.energy <= 10
       THEN /\ petMessage' = MsgTired
            /\ UNCHANGED <<state, storage, conditionText, terminal>>
       ELSE /\ render([state EXCEPT !.energy = clamp(state.energy - 18, LO, HI),
                                    !.hunger = clamp(state.hunger + 8, LO, HI),
                                    !.clean  = clamp(state.clean - 10, LO, HI),
                                    !.health = clamp(state.health + 3, LO, HI)])
            /\ petMessage' = MsgPlayed
            /\ UNCHANGED terminal

\* toggleSleep that can only put the pet to sleep.
toggleSleep_oneWay ==
    /\ click("toggleSleep")
    /\ IF state.health <= 0
       THEN UNCHANGED <<state, storage, conditionText, petMessage, terminal>>
       ELSE /\ render([state EXCEPT !.isSleeping = TRUE])
            /\ petMessage' = MsgAsleep
            /\ UNCHANGED terminal

\* toggleSleep without its health guard.
toggleSleep_unguarded ==
    /\ click("toggleSleep")
    /\ render([state EXCEPT !.isSleeping = ~state.isSleeping])
    /\ petMessage' = IF ~state.isSleeping THEN MsgAsleep ELSE MsgAwake
    /\ UNCHANGED terminal

toggleSleep ==
    /\ click("toggleSleep")
    /\ IF state.health <= 0
       THEN UNCHANGED <<state, storage, conditionText, petMessage, terminal>>
       ELSE /\ render([state EXCEPT !.isSleeping = ~state.isSleeping])
            /\ petMessage' = IF ~state.isSleeping THEN MsgAsleep ELSE MsgAwake
            /\ UNCHANGED terminal

heal ==
    /\ click("heal")
    /\ IF state.health <= 0
       THEN UNCHANGED <<state, storage, conditionText, petMessage, terminal>>
       ELSE IF state.energy <= 8
       THEN /\ petMessage' = MsgNoHeal
            /\ UNCHANGED <<state, storage, conditionText, terminal>>
       ELSE /\ render([state EXCEPT !.health = clamp(state.health + 18, LO, HI),
                                    !.clean  = clamp(state.clean + 12, LO, HI),
                                    !.energy = clamp(state.energy - 10, LO, HI)])
            /\ petMessage' = MsgHealed
            /\ UNCHANGED terminal

togglePause ==
    /\ click("togglePause")
    /\ render([state EXCEPT !.paused = ~state.paused])
    /\ petMessage' = IF ~state.paused THEN MsgPaused ELSE MsgResumed
    /\ UNCHANGED terminal

\* resetAll with the health guard the other handlers start with.
resetAll_guarded ==
    /\ click("resetAll")
    /\ IF state.health <= 0
       THEN UNCHANGED <<state, storage, conditionText, petMessage, terminal>>
       ELSE /\ render(defaultState(now))
            /\ petMessage' = MsgFresh
            /\ terminal' = FALSE

resetAll ==
    /\ click("resetAll")
    /\ render(defaultState(now))
    /\ petMessage' = MsgFresh
    /\ terminal' = FALSE

\* The page is closed and opened again gap ms later: the live object, the
\* interval and the DOM are gone, the stored item is all that is left.
reload ==
    /\ nEvents < MaxEvents
    /\ \E gap \in Gaps :
        /\ now' = now + gap
        /\ boot(storage, now')
    /\ nEvents' = nEvents + 1
    /\ petMessage' = MsgInitial
    /\ lastOp' = "boot"
    /\ UNCHANGED <<nTicks, terminal, opened>>

\* First visit: nothing is stored.
Init ==
    /\ now = 0
    /\ state = defaultState(0)
    /\ conditionText = "Great"
    /\ storage = saveState(defaultState(0))
    /\ tickInterval = 1
    /\ timers = {1}
    /\ petMessage = MsgInitial
    /\ nTicks = 0
    /\ nEvents = 0
    /\ terminal = FALSE
    /\ lastOp = "boot"
    /\ opened = state

Next == \/ tick \/ feed \/ play \/ toggleSleep \/ heal \/ togglePause
        \/ resetAll \/ reload

Spec == Init /\ [][Next]_vars

\* ------------------------------------------- the pure functions alone
\* The decay step, the classifier and the catch-up replay applied once to
\* pets drawn from the values around every threshold of the rules.  The page
\* has just been opened on a stored pet, then one function is applied.
HealthVals == {0, 1, 4, 7, 8, 25, 26, 70, 100}
HungerVals == {0, 40, 41, 56, 57, 74, 75, 76, 77, 98, 100}
EnergyVals == {0, 12, 13, 25, 26, 39, 40, 94, 95, 100}
CleanVals  == {0, 11, 12, 25, 26, 100}

StoredPets ==
    { [defaultState(0) EXCEPT !.health = h, !.hunger = g, !.energy = e,
                              !.clean = c, !.isSleeping = z] :
        h \in HealthVals, g \in HungerVals, e \in EnergyVals, c \in CleanVals,
        z \in BOOLEAN }

\* Pets that are paused, or were created before they were last stored.
OtherPets ==
    { [defaultState(0) EXCEPT !.paused = p, !.isSleeping = z, !.createdAt = c,
                              !.hunger = g, !.energy = e] :
        p \in BOOLEAN, z \in BOOLEAN, c \in {0 - MinuteMs, 0},
        g \in {0, 77}, e \in {12, 80} }

\* Stored items the script did not write itself: vitals outside 0..100.
ForeignPets ==
    { [defaultState(0) EXCEPT !.health = h, !.isSleeping = z] :
        h \in {-20, 150}, z \in BOOLEAN }
    \cup { [defaultState(0) EXCEPT !.hunger = g, !.energy = e, !.clean = c] :
        g \in {-20, 150}, e \in {-20, 150}, c \in {-20, 150} }

FnGaps == {0, MinuteMs - 1, MinuteMs, CapMinutes * MinuteMs,
           (CapMinutes + 1) * MinuteMs, 24 * CapMinutes * MinuteMs}

\* What the page may find in storage: a pet, nothing, an empty string, text
\* that is no JSON, JSON of a number, or a pet stored without some fields.
StoredItems ==
    { JSONstringify(pet) : pet \in StoredPets \cup OtherPets \cup ForeignPets }
    \cup { NoItem,
           [kind |-> "empty", members |-> {}],
           [kind |-> "garbage", members |-> {}],
           [kind |-> "number", members |-> {}],
           [kind |-> "object", members |-> {<<"health", 40>>, <<"hunger", 77>>}] }

FnInit ==
    /\ now = 0
    /\ \E item \in StoredItems :
        /\ state = rendered(loaded(item, 0))
        /\ conditionText = computeMoodAndCondition(state).condition
        /\ storage = saveState(state)
    /\ tickInterval = 1
    /\ timers = {1}
    /\ petMessage = MsgInitial
    /\ nTicks = 0
    /\ nEvents = 0
    /\ terminal = FALSE
    /\ lastOp = "boot"
    /\ opened = state

\* advance(s): one decay step, nothing else.
advance ==
    /\ nEvents = 0
    /\ nEvents' = 1
    /\ state' = applyNaturalDecay(state)
    /\ lastOp' = "advance"
    /\ UNCHANGED <<storage, tickInterval, timers, petMessage, conditionText,
                   now, nTicks, terminal, opened>>

\* replay(snapshot, now): the stored pet loaded gap ms after it was stored.
replayAfter(gap) ==
    /\ nEvents = 0
    /\ nEvents' = 1
    /\ now' = now + gap
    /\ state' = loadState(storage, now')
    /\ lastOp' = "replay"
    /\ UNCHANGED <<storage, tickInterval, timers, petMessage, conditionText,
                   nTicks, terminal, opened>>

replay == \E gap \in FnGaps : replayAfter(gap)

\* classify(s): the labels of the pet a function has returned.
classify ==
    /\ nEvents = 1
    /\ nEvents' = 2
    /\ state' = rendered(state)
    /\ conditionText' = computeMoodAndCondition(state).condition
    /\ lastOp' = "classify"
    /\ UNCHANGED <<storage, tickInterval, timers, petMessage, now, nTicks,
                   terminal, opened>>

FnNext == advance \/ replay \/ classify

FnSpec == FnInit /\ [][FnNext]_vars

\* ------------------------------------------------ the handlers alone
\* The page shows a pet drawn from the values around every threshold of the
\* handlers; then one button is pressed, or the pet is put to sleep, advanced
\* and woken, or the interval is started again and fires.
ActHealth == {0, 1, 82, 83, 98, 100}
ActHunger == {0, 24, 26, 92, 93, 100}
ActEnergy == {0, 8, 9, 10, 11, 18, 95, 96, 100}
ActClean  == {0, 5, 10, 88, 89, 100}

\* A pet at health 0 is never asleep: toggleSleep refuses it and the
\* callback that brought it there woke it.
ActPets ==
    { pet \in
        { [defaultState(0) EXCEPT !.health = h, !.hunger = g, !.energy = e,
                                  !.clean = c, !.isSleeping = z, !.paused = p] :
            h \in ActHealth, g \in ActHunger, e \in ActEnergy,
            c \in ActClean, z \in BOOLEAN, p \in BOOLEAN } :
        pet.health > 0 \/ ~pet.isSleeping }

ActInit ==
    /\ now = 0
    /\ \E pet \in ActPets :
        /\ state = rendered(pet)
        /\ conditionText = computeMoodAndCondition(pet).condition
        /\ storage = saveState(state)
    /\ tickInterval = 1
    /\ timers = {1}
    /\ petMessage = MsgInitial
    /\ nTicks = 0
    /\ nEvents = 0
    /\ terminal = (state.health <= 0)
    /\ lastOp = "boot"
    /\ opened = state

\* One press of Feed, Play or Heal on the pet the page shows.
feedOnce == lastOp = "boot" /\ feed
playOnce == lastOp = "boot" /\ play
healOnce == lastOp = "boot" /\ heal

\* toggleSleep(); advance(); toggleSleep().
sleepOnce == lastOp = "boot" /\ toggleSleep

advanceOnce ==
    /\ lastOp = "toggleSleep" /\ nEvents = 1
    /\ nTicks' = nTicks + 1
    /\ state' = applyNaturalDecay(state)
    /\ lastOp' = "advance"
    /\ UNCHANGED <<storage, tickInterval, timers, petMessage, conditionText,
                   now, nEvents, terminal, opened>>

wakeOnce == lastOp = "advance" /\ toggleSleep

\* startTicking() called again on the running page.
restart ==
    /\ lastOp \in {"boot", "startTicking"}
    /\ tickInterval <= MaxRestarts
    /\ startTicking(tickInterval, timers)
    /\ lastOp' = "startTicking"
    /\ UNCHANGED <<state, storage, petMessage, conditionText, now, nTicks,
                   nEvents, terminal, opened>>

\* One period later an active interval fires.
tickOnce == lastOp \in {"boot", "startTicking"} /\ callback

ActNext == \/ feedOnce \/ playOnce \/ healOnce
           \/ sleepOnce \/ advanceOnce \/ wakeOnce
           \/ restart \/ tickOnce

ActSpec == ActInit /\ [][ActNext]_vars

\* --------------------------------------------- the pet left to itself
\* The page shows a pet that is not paused and nobody presses a button: the
\* interval goes on firing.
LiveHealth == {0, 1, 50, 100}
LiveHunger == {0, 59, 100}
LiveEnergy == {0, 11, 92, 100}
LiveClean  == {0, 11, 100}

LivePets ==
    { pet \in
        { [defaultState(0) EXCEPT !.health = h, !.hunger = g, !.energy = e,
                                  !.clean = c, !.isSleeping = z] :
            h \in LiveHealth, g \in LiveHunger, e \in LiveEnergy,
            c \in LiveClean, z \in BOOLEAN } :
        pet.health > 0 \/ ~pet.isSleeping }

LiveInit ==
    /\ now = 0
    /\ \E pet \in LivePets :
        /\ state = rendered(pet)
        /\ conditionText = computeMoodAndCondition(pet).condition
        /\ storage = saveState(state)
    /\ tickInterval = 1
    /\ timers = {1}
    /\ petMessage = MsgInitial
    /\ nTicks = 0
    /\ nEvents = 0
    /\ terminal = FALSE
    /\ lastOp = "boot"
    /\ opened = state

lifeTick == nTicks < LifeTicks /\ callback

LiveNext == lifeTick

\* setInterval fires the callback again every TickMs for as long as the page
\* is open.
LiveSpec == LiveInit /\ [][LiveNext]_vars /\ WF_vars(lifeTick)

\* ================================================================ claims
Vitals(s) == <<s.health, s.hunger, s.energy, s.clean>>
InRange(s) == \A i \in 1..4 : Vitals(s)[i] \in LO..HI

\* C1: in every state reached from the default state by ticks, clicks and
\* reloads with catch-up replay, health, hunger, energy and clean are
\* integers in [0,100].
C1_VitalsInRange == InRange(state)

\* A pet whose hunger and energy were clamped by the replay of a reload and
\* that has ticked and been clicked on since.
C1_Witness ==
    /\ state.hunger = 100 /\ state.energy = 0
    /\ nTicks > 0 /\ nEvents = MaxEvents

\* C2: once a tick has left health at 0, health is 0 in every later state
\* until reset.
C2_HealthStaysZero == terminal => state.health = 0

\* Time was resumed after the terminal tick (the tick left "need a reset").
C2_Witness == terminal /\ petMessage = MsgResumed /\ ~state.paused

\* C3 (as claimed): after a tick has left health at 0, paused = true and
\* isSleeping = false in every later state until reset.
C3_Latched == terminal => (state.paused /\ ~state.isSleeping)

\* C4 (as claimed): from the terminal tick until reset no step changes
\* health, hunger, energy or clean.
C4_Inert == [][(terminal /\ terminal') => Vitals(state') = Vitals(state)]_vars

\* The buttons whose handlers start with the health guard.
GuardedButtons == {"feed", "play", "toggleSleep", "heal"}

\* C5: with health <= 0, feed, play, toggleSleep and heal leave the whole
\* state object unchanged.
C5_GuardedNoOp ==
    [][(state.health <= 0 /\ lastOp' \in GuardedButtons) => state' = state]_vars

\* A guarded button was clicked on a pet whose health is 0.
C5_Witness == state.health <= 0 /\ lastOp \in GuardedButtons

\* The reference decay rule: the deltas, then one health penalty summed over
\* the post-step hunger, energy and clean, everything bounded to [0,100].
Penalty(hunger, energy, clean) ==
    (IF hunger >= 80 THEN 3 ELSE IF hunger >= 60 THEN 1 ELSE 0)
    + (IF energy <= 10 THEN 2 ELSE 0) + (IF clean <= 10 THEN 2 ELSE 0)

Bounded(n) == IF n < 0 THEN 0 ELSE IF n > 100 THEN 100 ELSE n

RefAdvance(s) ==
    IF s.isSleeping
    THEN <<Bounded(s.health + 1), Bounded(s.hunger + 2), Bounded(s.energy + 6),
           Bounded(s.clean - 1)>>
    ELSE <<Bounded(s.health - Penalty(Bounded(s.hunger + 3), Bounded(s.energy - 2),
                                      Bounded(s.clean - 1))),
           Bounded(s.hunger + 3), Bounded(s.energy - 2), Bounded(s.clean - 1)>>

C7_AdvanceInRange == [][lastOp' = "advance" => InRange(state')]_vars

\* The classifier's rules in their fixed order, and the first that matches.
Rules(s) ==
    << <<s.isSleeping, "Sleepy", "Sleeping...">>,
       <<s.health <= 25, "Sick", "Needs care!">>,
       <<s.hunger >= 75, "Hungry", "Feed me!">>,
       <<s.energy <= 25, "Sleepy", "Very tired">>,
       <<s.clean <= 25, "Sick", "Dirty & cranky">>,
       <<s.health >= 70 /\ s.hunger <= 40 /\ s.energy >= 40, "Happy", "Great">>,
       <<TRUE, "Okay", "Doing fine">> >>

FirstMatch(s) ==
    CHOOSE i \in 1..7 : Rules(s)[i][1] /\ \A j \in 1..(i - 1) : ~Rules(s)[j][1]

\* C8: the labels shown are those of the first rule that matches, in the
\* fixed order; an awake pet with health <= 25 and hunger >= 75 is Sick.
C8_FirstMatchWins ==
    lastOp \in {"boot", "classify"} =>
        /\ state.mood = Rules(state)[FirstMatch(state)][2]
        /\ conditionText = Rules(state)[FirstMatch(state)][3]
        /\ (~state.isSleeping /\ state.health <= 25 /\ state.hunger >= 75
              => state.mood = "Sick" /\ conditionText = "Needs care!")

\* A pet the decay step made both sick and hungry, classified afterwards.
C8_Witness ==
    /\ lastOp = "classify" /\ ~state.isSleeping
    /\ state.health <= 25 /\ state.hunger >= 75 /\ state.mood = "Sick"

Flags(s) == <<s.isSleeping, s.paused, s.createdAt, s.mood>>

\* C9: replay after 60 minutes or more gives the vitals and flags of replay
\* after exactly 60 minutes, which are those of exactly 60 decay steps.
C9_ReplayCapped ==
    [][(lastOp' = "replay" /\ now' - JSONparse(storage).lastTickAt >= CapMinutes * MinuteMs) =>
         LET snapshot == JSONparse(storage)
             atCap == loadState(storage, snapshot.lastTickAt + CapMinutes * MinuteMs)
         IN /\ Vitals(state') = Vitals(atCap)
            /\ Flags(state') = Flags(atCap)
            /\ Vitals(state') = Vitals(DecayTimes(snapshot, 60))]_vars

\* A spotless awake pet replayed after a day: clean has dropped by 60.
C9_Witness ==
    /\ lastOp = "replay" /\ now = 24 * CapMinutes * MinuteMs
    /\ ~state.isSleeping /\ state.clean = 40 /\ state.lastTickAt = now

\* C10: replay less than a minute after the last tick changes no field but
\* lastTickAt, which becomes now.
C10_ReplayUnderAMinute ==
    [][(lastOp' = "replay" /\ now' - JSONparse(storage).lastTickAt < MinuteMs) =>
         state' = [JSONparse(storage) EXCEPT !.lastTickAt = now']]_vars

\* A hungry pet replayed 59.999 s after it was stored.
C10_Witness ==
    /\ lastOp = "replay" /\ now = MinuteMs - 1
    /\ state.lastTickAt = now /\ state.hunger = 77 /\ state.health = 8

\* The values a fresh pet has at time t.
IsFresh(s, t) ==
    /\ Vitals(s) = <<100, 0, 80, 80>>
    /\ ~s.isSleeping /\ ~s.paused
    /\ s.createdAt = t /\ s.lastTickAt = t

\* C11: reset leaves health 100, hunger 0, energy 80, clean 80, not sleeping,
\* not paused, createdAt = lastTickAt = now, and the page opened again at
\* once on what reset stored shows the same pet.
C11_ResetIsFresh ==
    [][lastOp' = "resetAll" =>
         /\ IsFresh(state', now')
         /\ IsFresh(loaded(storage', now'), now')]_vars

\* Reset clicked on a pet that 61 minutes of replay and one tick had left
\* at health 0.
C11_Witness ==
    /\ lastOp = "resetAll" /\ nEvents = 2 /\ nTicks = 1
    /\ now = (CapMinutes + 1) * MinuteMs + TickMs /\ state.createdAt = now

\* C12: a tick on a paused pet changes nothing of the state object; a tick
\* on a running pet applies exactly one decay step and stamps lastTickAt.
C12_TickFrame ==
    [][lastOp' = "tick" =>
         IF state.paused THEN state' = state
         ELSE /\ Vitals(state') = RefAdvance(state)
              /\ state'.lastTickAt = now']_vars

\* A live pet that a tick found paused: its last decay is older than now.
C12_Witness ==
    /\ lastOp = "tick" /\ state.paused /\ state.health > 0
    /\ state.lastTickAt < now

\* C13: after a tick on a running pet the pet is never both asleep and at
\* energy >= 98; a sleeper below 98 with health > 0 stays asleep.
C13_AutoWake ==
    [][(lastOp' = "tick" /\ ~state.paused) =>
         /\ ~(state'.isSleeping /\ state'.energy >= 98)
         /\ (state.isSleeping /\ state'.energy < 98 /\ state'.health > 0
               => state'.isSleeping)]_vars

\* A sleeper the tick woke at energy 98.
C13_Witness ==
    /\ lastOp = "tick" /\ petMessage = MsgRested
    /\ ~state.isSleeping /\ state.energy = 98

\* C14: with a clock that never goes back, lastTickAt never decreases.
C14_LastTickMonotone == [][state'.lastTickAt >= state.lastTickAt]_vars

\* The page opened again after ticks and a reset made after time had passed.
C14_Witness ==
    /\ lastOp = "boot" /\ nTicks > 0 /\ nEvents = MaxEvents
    /\ state.createdAt > 0 /\ state.lastTickAt = now

\* C18: after boot and after every handler the stored item is the live
\* state.
C18_StoredIsLive == storage.kind = "object" /\ JSONparse(storage) = state

\* Reset, after ticks, has stored the fresh pet.
C18_Witness ==
    /\ lastOp = "resetAll" /\ nTicks > 0
    /\ JSONparse(storage) = state /\ state.createdAt = now

\* The reference operators of the three care actions, on the vitals
\* <<health, hunger, energy, clean>>.
RefFeed(s) ==
    <<s.health, Bounded(s.hunger - 25), Bounded(s.energy + 5),
      Bounded(s.clean - 5)>>

RefPlay(s) ==
    IF s.energy <= 10 THEN Vitals(s)
    ELSE <<Bounded(s.health + 3), Bounded(s.hunger + 8),
           Bounded(s.energy - 18), Bounded(s.clean - 10)>>

RefHeal(s) ==
    IF s.energy <= 8 THEN Vitals(s)
    ELSE <<Bounded(s.health + 18), s.hunger, Bounded(s.energy - 10),
           Bounded(s.clean + 12)>>

RefAction(op, s) ==
    IF op = "feed" THEN RefFeed(s)
    ELSE IF op = "play" THEN RefPlay(s) ELSE RefHeal(s)

\* C15: on a pet with health > 0, feed, play and heal give the vitals of
\* their reference operators, clamped to 0..100; createdAt, lastTickAt,
\* isSleeping and paused are left alone.
C15_ActionsAreReference ==
    [][(lastOp' \in {"feed", "play", "heal"} /\ state.health > 0) =>
         /\ Vitals(state') = RefAction(lastOp', state)
         /\ state'.isSleeping = state.isSleeping
         /\ state'.paused = state.paused
         /\ state'.createdAt = state.createdAt
         /\ state'.lastTickAt = state.lastTickAt]_vars

\* Heal at energy 9 and health 83: energy clamps to 0, health to 100.
C15_Witness ==
    /\ lastOp = "heal" /\ opened.health = 83 /\ opened.energy = 9
    /\ state.health = 100 /\ state.energy = 0 /\ petMessage = MsgHealed

\* The sleeping-decay rule applied once to the vitals of s.
SleepRule(s) ==
    <<Bounded(s.health + 1), Bounded(s.hunger + 2), Bounded(s.energy + 6),
      Bounded(s.clean - 1)>>

\* toggleSleep(); advance(); toggleSleep() has run on the opened pet.
RoundTripDone == lastOp = "toggleSleep" /\ nEvents = 2 /\ nTicks = 1

\* C16 as stated: from any awake pet, toggleSleep, advance, toggleSleep
\* ends awake with the vitals of one sleeping-decay step.
C16_RoundTripAnyPet ==
    (RoundTripDone /\ ~opened.isSleeping) =>
        (~state.isSleeping /\ Vitals(state) = SleepRule(opened))

\* C16: from any awake pet with health > 0, toggleSleep, advance,
\* toggleSleep ends awake with the vitals of one sleeping-decay step.
C16_RoundTripLivePet ==
    (RoundTripDone /\ ~opened.isSleeping /\ opened.health > 0) =>
        (~state.isSleeping /\ Vitals(state) = SleepRule(opened))

\* A live awake pet after the round trip, its energy clamped at 100.
C16_Witness ==
    /\ RoundTripDone /\ ~opened.isSleeping /\ opened.health = 1
    /\ opened.energy = 95 /\ state.energy = 100 /\ state.health = 2
    /\ petMessage = MsgAwake

\* C17: exactly one interval is active, the one tickInterval holds, however
\* often startTicking has run.
C17_OneTimer == timers = {tickInterval} /\ Cardinality(timers) = 1

\* The interval started for the third time has fired.
C17_Witness == lastOp = "tick" /\ tickInterval = 3 /\ nTicks = 1

\* C19: a pet that is not paused and is left to the interval ends at
\* health 0 with time paused, whether it started awake or asleep.
C19_EventuallyTerminal ==
    (~state.paused) ~> (state.health = 0 /\ state.paused)

\* A pet that started asleep at full health has reached the terminal state.
C19_Witness ==
    /\ terminal /\ state.health = 0 /\ state.paused /\ lastOp = "tick"
    /\ opened.isSleeping /\ opened.health = 100 /\ opened.hunger = 0

\* C20: a pet that fell asleep is awake once 17 ticks have passed, whatever
\* its energy was.
C20_AwakeWithin17 == (opened.isSleeping /\ nTicks >= 17) => ~state.isSleeping

\* The pet that fell asleep at energy 0 is woken by the 17th tick.
C20_Witness ==
    /\ opened.isSleeping /\ opened.energy = 0 /\ nTicks = 17
    /\ ~state.isSleeping /\ state.energy = 100 /\ petMessage = MsgRested

====
